---- MODULE Spec2Model ----
(***************************************************************************)
(* A model of equitext.py: the combination / permutation codec and the     *)
(* encode and decode pipelines built from it.  Symbols are the integers    *)
(* 1..NumSyms in their natural order, a text is a sequence of symbols, an  *)
(* alphabet is an ascending sequence of distinct symbols.  Python indices  *)
(* are 0-based, TLA+ sequences 1-based: alphabet[k] of the source is       *)
(* alphabet[k+1] here.                                                     *)
(***************************************************************************)
EXTENDS Integers, Sequences, FiniteSets, TLC

\* Bounds of the model.
NumSyms == 4
MaxLen == 5
MaxIter == 8
MaxN == 30

Symbols == 1..NumSyms
Texts == UNION {[1..n -> Symbols] : n \in 0..MaxLen}

VARIABLES op, pc, text, alphabet, index, len_chunk, ret, retn, raised,
          plain, roundtrip

vars == <<op, pc, text, alphabet, index, len_chunk, ret, retn, raised,
          plain, roundtrip>>

----------------------------------------------------------------------------
\* Python built-ins used by the source.

RECURSIVE factorial(_)
factorial(n) == IF n <= 0 THEN 1 ELSE n * factorial(n - 1)

RECURSIVE pow(_, _)
pow(b, e) == IF e <= 0 THEN 1 ELSE b * pow(b, e - 1)

set(s) == {s[i] : i \in DOMAIN s}

RECURSIVE sorted(_)
sorted(S) ==
  IF S = {} THEN <<>>
  ELSE LET m == CHOOSE x \in S : \A y \in S : x <= y
       IN <<m>> \o sorted(S \ {m})

\* s[i:j] for 0 <= i <= j
slice(s, i, j) == SubSeq(s, i + 1, IF j < Len(s) THEN j ELSE Len(s))

\* c * n, the symbol c repeated n times (empty when n <= 0)
repeat(c, n) == [i \in 1..n |-> c]

\* list.index(c) for c in the list
list_index(l, c) == (CHOOSE i \in 1..Len(l) : l[i] = c /\ \A j \in 1..(i - 1) : l[j] # c) - 1

\* the list after list.remove(c) for c in the list
list_remove(l, c) ==
  LET k == list_index(l, c) + 1
  IN SubSeq(l, 1, k - 1) \o SubSeq(l, k + 1, Len(l))

Alphabets == {sorted(S) : S \in SUBSET Symbols}

\* A call either returns a value or raises.
Return(v) == [raised |-> FALSE, value |-> v]
RaiseText == [raised |-> TRUE, value |-> <<>>]
RaiseInt == [raised |-> TRUE, value |-> 0]

----------------------------------------------------------------------------
\* The codec functions.

tebahpla_of(alph) == [c \in set(alph) |-> list_index(alph, c)]

RECURSIVE get_combindex_loop(_, _, _, _)
get_combindex_loop(chunk, tebahpla, p, total) ==
  IF chunk = <<>> THEN total
  ELSE get_combindex_loop(Tail(chunk), tebahpla, p - 1,
         total + tebahpla[Head(chunk)] * pow(Cardinality(DOMAIN tebahpla), p))

get_combindex(chunk, tebahpla) ==
  get_combindex_loop(chunk, tebahpla, Len(chunk) - 1, 0)

RECURSIVE get_combination_loop(_, _, _)
get_combination_loop(quot, chunk, alph) ==
  IF quot = 0 THEN chunk
  ELSE get_combination_loop(quot \div Len(alph),
         <<alph[(quot % Len(alph)) + 1]>> \o chunk, alph)

get_combination(idx, alph) == get_combination_loop(idx, <<>>, alph)

RECURSIVE get_permindex_loop(_, _, _, _)
get_permindex_loop(permutation, subalphabet, radix, idx) ==
  IF permutation = <<>> THEN Return(idx)
  ELSE LET char == Head(permutation)
       IN IF char \notin set(subalphabet) THEN RaiseInt
          ELSE get_permindex_loop(Tail(permutation),
                 list_remove(subalphabet, char), radix - 1,
                 idx + list_index(subalphabet, char) * factorial(radix))

\* get_permindex with radix starting at len(alphabet)
get_permindex_radix(permutation, alph) ==
  get_permindex_loop(permutation, alph, Len(alph), 0)

get_permindex(permutation, alph) ==
  get_permindex_loop(permutation, alph, Len(alph) - 1, 0)

RECURSIVE convert_factorial_loop(_, _, _)
convert_factorial_loop(quot, value, digits) ==
  IF quot = 0 THEN digits
  ELSE convert_factorial_loop(quot \div value, value + 1,
         <<quot % value>> \o digits)

\* convert_factorial with value starting at 2
convert_factorial_from2(idx) == convert_factorial_loop(idx, 2, <<>>)

convert_factorial(idx) == convert_factorial_loop(idx, 1, <<>>)

\* get_permutation_loop without subalphabet.remove(char)
RECURSIVE get_permutation_loop_keep(_, _, _)
get_permutation_loop_keep(digits, subalphabet, permutation) ==
  IF digits = <<>> THEN Return(permutation)
  ELSE LET d == Head(digits)
       IN IF d >= Len(subalphabet) THEN RaiseText
          ELSE get_permutation_loop_keep(Tail(digits), subalphabet,
                 permutation \o <<subalphabet[d + 1]>>)

RECURSIVE get_permutation_loop(_, _, _)
get_permutation_loop(digits, subalphabet, permutation) ==
  IF digits = <<>> THEN Return(permutation)
  ELSE LET d == Head(digits)
       IN IF d >= Len(subalphabet) THEN RaiseText
          ELSE get_permutation_loop(Tail(digits),
                 list_remove(subalphabet, subalphabet[d + 1]),
                 permutation \o <<subalphabet[d + 1]>>)

get_permutation(idx, alph) ==
  LET digits == convert_factorial(idx)
  IN get_permutation_loop(repeat(0, Len(alph) - Len(digits)) \o digits,
                          alph, <<>>)

\* get_alphabet_loop adding the symbol before the membership test
get_alphabet_loop_first(t, seen) ==
  IF t = <<>> THEN seen ELSE seen \cup {Head(t)}

RECURSIVE get_alphabet_loop(_, _)
get_alphabet_loop(t, seen) ==
  IF t = <<>> \/ Head(t) \in seen THEN seen
  ELSE get_alphabet_loop(Tail(t), seen \cup {Head(t)})

get_alphabet_from_encoded(t) == sorted(get_alphabet_loop(t, {}))

\* the loop condition with < for <=
get_chunk_length_cond_strict(alph, n) ==
  pow(Len(alph), n) < factorial(Len(alph))

\* The loop condition of get_chunk_length.
get_chunk_length_cond(alph, n) == pow(Len(alph), n) <= factorial(Len(alph))

----------------------------------------------------------------------------
\* encode, after the alphabet test and the chunk length.

\* the padding length that is zero for a text of whole chunks
encode_len_pad_zero(t, n) == (n - (Len(t) % n)) % n

encode_len_pad(t, n) == n - (Len(t) % n)

RECURSIVE encode_loop(_, _, _, _, _)
encode_loop(t, alph, n, i, encoded) ==
  IF i >= Len(t) THEN Return(encoded)
  ELSE LET chunk == slice(t, i, i + n)
           idx == get_combindex(chunk, tebahpla_of(alph))
           perm == get_permutation(idx, alph)
       IN IF perm.raised THEN RaiseText
          ELSE encode_loop(t, alph, n, i + n, encoded \o perm.value)

encode_tail(t, alph, n) ==
  IF n = 0 THEN RaiseText                      \* len(text) % 0
  ELSE LET len_pad == encode_len_pad(t, n)
       IN IF len_pad >= Len(alph) THEN RaiseText    \* alphabet[len_pad]
          ELSE encode_loop(t \o repeat(alph[len_pad + 1], len_pad),
                           alph, n, 0, <<>>)

\* decode, after the alphabet test and the chunk length.

\* decode_loop without the left padding of a short chunk by alphabet[0]
RECURSIVE decode_loop_nopad(_, _, _, _, _)
decode_loop_nopad(t, alph, n, i, decoded) ==
  IF i >= Len(t) THEN Return(decoded)
  ELSE LET permutation == slice(t, i, i + Len(alph))
           r == get_permindex(permutation, alph)
       IN IF r.raised THEN RaiseText
          ELSE decode_loop_nopad(t, alph, n, i + Len(alph),
                 decoded \o get_combination(r.value, alph))

RECURSIVE decode_loop(_, _, _, _, _)
decode_loop(t, alph, n, i, decoded) ==
  IF i >= Len(t) THEN Return(decoded)
  ELSE LET permutation == slice(t, i, i + Len(alph))
           r == get_permindex(permutation, alph)
       IN IF r.raised THEN RaiseText
          ELSE LET chunk == get_combination(r.value, alph)
               IN decode_loop(t, alph, n, i + Len(alph),
                    decoded \o repeat(alph[1], n - Len(chunk)) \o chunk)

\* decoded[:-len_pad]
strip_pad(decoded, len_pad) ==
  IF len_pad = 0 THEN <<>>
  ELSE SubSeq(decoded, 1, Len(decoded) - len_pad)

decode_tail(t, alph, n) ==
  LET r == decode_loop(t, alph, n, 0, <<>>)
  IN IF r.raised \/ r.value = <<>> THEN RaiseText
     ELSE LET decoded == r.value
              len_pad == list_index(alph, decoded[Len(decoded)])
          IN Return(strip_pad(decoded, len_pad))

----------------------------------------------------------------------------
\* The state machine: a call is started from rest (pc = "idle"), runs the
\* chunk length loop when it needs it, and finishes with pc = "done".  The
\* functions keep no state between calls, so every call starts from rest.

Init ==
  /\ op = "none" /\ pc = "idle"
  /\ text = <<>> /\ alphabet = <<>> /\ index = 0 /\ len_chunk = 0
  /\ ret = <<>> /\ retn = 0 /\ raised = FALSE
  /\ plain = <<>> /\ roundtrip = FALSE

\* Enter passing through only the empty alphabet
Enter_empty_only(o, t, alph) ==
  /\ op' = o /\ text' = t /\ alphabet' = alph
  /\ index' = 0 /\ len_chunk' = 0 /\ retn' = 0 /\ raised' = FALSE
  /\ IF Len(alph) < 1
       THEN pc' = "done" /\ ret' = t
       ELSE pc' = "get_chunk_length" /\ ret' = <<>>

\* the first lines of encode / decode: derive the alphabet, pass the text
\* through when it has at most one symbol, else go for the chunk length
Enter(o, t, alph) ==
  /\ op' = o /\ text' = t /\ alphabet' = alph
  /\ index' = 0 /\ len_chunk' = 0 /\ retn' = 0 /\ raised' = FALSE
  /\ IF Len(alph) <= 1
       THEN pc' = "done" /\ ret' = t
       ELSE pc' = "get_chunk_length" /\ ret' = <<>>

encode ==
  /\ pc = "idle"
  /\ \E t \in Texts :
       /\ Enter("encode", t, sorted(set(t)))
       /\ plain' = <<>> /\ roundtrip' = FALSE

decode ==
  /\ pc = "idle"
  /\ \E t \in Texts :
       /\ Enter("decode", t, get_alphabet_from_encoded(t))
       /\ plain' = <<>> /\ roundtrip' = FALSE

\* tests.py: decode applied to what encode returned
decode_encoded ==
  /\ pc = "done" /\ op = "encode" /\ ~raised /\ ~roundtrip
  /\ Enter("decode", ret, get_alphabet_from_encoded(ret))
  /\ plain' = text /\ roundtrip' = TRUE

get_chunk_length ==
  /\ pc = "idle"
  /\ \E alph \in Alphabets :
       /\ op' = "get_chunk_length" /\ pc' = "get_chunk_length"
       /\ alphabet' = alph /\ len_chunk' = 0
       /\ text' = <<>> /\ index' = 0 /\ ret' = <<>> /\ retn' = 0
       /\ raised' = FALSE /\ plain' = <<>> /\ roundtrip' = FALSE

get_chunk_length_loop ==
  /\ pc = "get_chunk_length"
  /\ get_chunk_length_cond(alphabet, len_chunk)
  /\ len_chunk < MaxIter
  /\ len_chunk' = len_chunk + 1
  /\ UNCHANGED <<op, pc, text, alphabet, index, ret, retn, raised,
                 plain, roundtrip>>

get_chunk_length_return ==
  /\ pc = "get_chunk_length"
  /\ ~get_chunk_length_cond(alphabet, len_chunk)
  /\ len_chunk' = len_chunk - 1
  /\ pc' = CASE op = "encode" -> "encode"
             [] op = "decode" -> "decode"
             [] OTHER -> "done"
  /\ retn' = IF op = "get_chunk_length" THEN len_chunk - 1 ELSE retn
  /\ UNCHANGED <<op, text, alphabet, index, ret, raised, plain, roundtrip>>

encode_finish ==
  /\ pc = "encode"
  /\ LET r == encode_tail(text, alphabet, len_chunk)
     IN ret' = r.value /\ raised' = r.raised
  /\ pc' = "done"
  /\ UNCHANGED <<op, text, alphabet, index, len_chunk, retn, plain, roundtrip>>

decode_finish ==
  /\ pc = "decode"
  /\ LET r == decode_tail(text, alphabet, len_chunk)
     IN ret' = r.value /\ raised' = r.raised
  /\ pc' = "done"
  /\ UNCHANGED <<op, text, alphabet, index, len_chunk, retn, plain, roundtrip>>

\* a direct call of get_permindex on any block and alphabet
call_get_permindex ==
  /\ pc = "idle"
  /\ \E alph \in Alphabets, permutation \in Texts :
       LET r == get_permindex(permutation, alph)
       IN /\ op' = "get_permindex" /\ pc' = "done"
          /\ text' = permutation /\ alphabet' = alph
          /\ retn' = r.value /\ raised' = r.raised
          /\ index' = 0 /\ len_chunk' = 0 /\ ret' = <<>>
          /\ plain' = <<>> /\ roundtrip' = FALSE

\* a direct call of get_permutation; the index A! is one past the last
\* permutation
call_get_permutation ==
  /\ pc = "idle"
  /\ \E alph \in Alphabets :
       \E idx \in 0..factorial(Len(alph)) :
         LET r == get_permutation(idx, alph)
         IN /\ op' = "get_permutation" /\ pc' = "done"
            /\ index' = idx /\ alphabet' = alph
            /\ ret' = r.value /\ raised' = r.raised
            /\ text' = <<>> /\ len_chunk' = 0 /\ retn' = 0
            /\ plain' = <<>> /\ roundtrip' = FALSE

\* get_permindex applied to what get_permutation returned
get_permindex_of_permutation ==
  /\ pc = "done" /\ op = "get_permutation" /\ ~raised
  /\ LET r == get_permindex(ret, alphabet)
     IN /\ op' = "get_permindex" /\ text' = ret
        /\ retn' = r.value /\ raised' = r.raised
        /\ roundtrip' = TRUE
  /\ UNCHANGED <<pc, alphabet, index, len_chunk, ret, plain>>

call_convert_factorial ==
  /\ pc = "idle"
  /\ \E n \in 0..MaxN :
       /\ op' = "convert_factorial" /\ pc' = "done"
       /\ index' = n /\ ret' = convert_factorial(n)
       /\ text' = <<>> /\ alphabet' = <<>> /\ len_chunk' = 0 /\ retn' = 0
       /\ raised' = FALSE /\ plain' = <<>> /\ roundtrip' = FALSE

Next ==
  \/ encode
  \/ decode
  \/ decode_encoded
  \/ get_chunk_length
  \/ get_chunk_length_loop
  \/ get_chunk_length_return
  \/ encode_finish
  \/ decode_finish
  \/ call_get_permindex
  \/ call_get_permutation
  \/ get_permindex_of_permutation
  \/ call_convert_factorial

Spec == Init /\ [][Next]_vars

----------------------------------------------------------------------------
\* Vocabulary of the properties.

count(s, c) == Cardinality({i \in DOMAIN s : s[i] = c})

\* s holds every symbol of alph exactly once and nothing else
IsPermutationOf(s, alph) ==
  /\ Len(s) = Len(alph)
  /\ \A c \in set(alph) : count(s, c) = 1

\* the b-th aligned block of width w of s, b = 0, 1, ...
Block(s, w, b) == slice(s, b * w, b * w + w)

\* s is a non-empty concatenation of permutations of alph
IsPermutationBlocks(s, alph) ==
  /\ Len(s) > 0
  /\ Len(s) % Len(alph) = 0
  /\ \A b \in 0..((Len(s) \div Len(alph)) - 1) :
       IsPermutationOf(Block(s, Len(alph), b), alph)

RECURSIVE FactorialValue(_)
FactorialValue(digits) ==
  IF digits = <<>> THEN 0
  ELSE Head(digits) * factorial(Len(digits) - 1) + FactorialValue(Tail(digits))

----------------------------------------------------------------------------
\* C1: round trip.  Whatever text encode was given, encode returns without
\* raising, and decode applied to what it returned returns without raising
\* and returns exactly that text.
RoundTrip ==
  /\ (op = "encode" /\ pc = "done") => ~raised
  /\ (op = "decode" /\ roundtrip /\ pc = "done") => (~raised /\ ret = plain)

\* a finished round trip of a text over four symbols (chunks of two symbols)
RoundTripWitness ==
  /\ op = "decode" /\ roundtrip /\ pc = "done"
  /\ Cardinality(set(plain)) = 4 /\ len_chunk = 2 /\ ret = plain

\* C2: occurrence uniformity.  For a text over A >= 2 symbols the length of
\* encode's result is a multiple of A, every aligned block of A symbols of it
\* holds each symbol of the text's alphabet exactly once, and so every symbol
\* of the alphabet occurs in it as often as there are blocks.
OccurrenceUniformity ==
  (op = "encode" /\ pc = "done" /\ Cardinality(set(text)) >= 2) =>
    LET alph == sorted(set(text))
        A == Len(alph)
    IN /\ ~raised
       /\ Len(ret) % A = 0
       /\ \A b \in 0..((Len(ret) \div A) - 1) :
            IsPermutationOf(Block(ret, A, b), alph)
       /\ \A c \in set(alph) : count(ret, c) = Len(ret) \div A

\* an encoded text of at least three blocks over three symbols
OccurrenceUniformityWitness ==
  /\ op = "encode" /\ pc = "done" /\ ~raised
  /\ Cardinality(set(text)) = 3 /\ Len(ret) >= 9

\* C3: degenerate pass-through.  For a text with at most one distinct symbol
\* encode and decode return the text unchanged and never enter the chunk
\* length computation; that computation, called on an alphabet of size 0 or
\* 1, never leaves its loop.
DegeneratePassThrough ==
  /\ (op \in {"encode", "decode"} /\ Cardinality(set(text)) <= 1) =>
       (pc = "done" /\ ~raised /\ ret = text /\ len_chunk = 0)
  /\ (op = "get_chunk_length" /\ Len(alphabet) <= 1) =>
       (pc = "get_chunk_length" /\ get_chunk_length_cond(alphabet, len_chunk))

\* decode has passed a repetition of one symbol through
DegeneratePassThroughWitness ==
  /\ op = "decode" /\ pc = "done" /\ ~roundtrip
  /\ Cardinality(set(text)) = 1 /\ Len(text) >= 2 /\ ret = text

\* C5: alphabet recovery.  For a text over A >= 2 symbols, the scan of
\* encode's result up to the first repeated symbol yields the sorted distinct
\* symbols of the text: the first A symbols of the result are pairwise
\* distinct and cover the alphabet, and the symbol after them, when there is
\* one, repeats one of them.
AlphabetRecovery ==
  (op = "decode" /\ roundtrip /\ Cardinality(set(plain)) >= 2) =>
    LET A == Cardinality(set(plain))
    IN /\ alphabet = sorted(set(plain))
       /\ Len(text) >= A
       /\ \A i, j \in 1..A : i # j => text[i] # text[j]
       /\ {text[i] : i \in 1..A} = set(plain)
       /\ Len(text) > A => text[A + 1] \in {text[i] : i \in 1..A}

\* the alphabet of an encoded text whose first block is not in sorted order
AlphabetRecoveryWitness ==
  /\ op = "decode" /\ roundtrip /\ Cardinality(set(plain)) = 3
  /\ alphabet = sorted(set(plain))
  /\ SubSeq(text, 1, 3) # alphabet

\* C4: malformed block detection.  get_permindex raises, and returns no
\* index, for every block that is not exactly a permutation of the alphabet
\* (a repeated symbol, a symbol outside the alphabet, fewer than A symbols),
\* and decode raises on a text whose final block is truncated.
MalformedBlockDetection ==
  /\ (op = "get_permindex" /\ pc = "done"
        /\ ~IsPermutationOf(text, alphabet)) => raised
  /\ (op = "decode" /\ pc = "done" /\ Len(alphabet) >= 2
        /\ Len(text) % Len(alphabet) # 0) => raised

\* C6: chunk length bound.  For an alphabet of size A >= 2 the loop of
\* get_chunk_length stops (its counter never passes A) and the result L has
\* A^L <= A! < A^(L+1), is 1 for A = 3, and every combination index of a
\* chunk of L symbols is smaller than A!.
ChunkLengthBound ==
  (op \in {"get_chunk_length", "encode", "decode"} /\ Len(alphabet) >= 2) =>
    LET A == Len(alphabet)
    IN /\ pc = "get_chunk_length" => (len_chunk <= A /\ len_chunk < MaxIter)
       /\ pc # "get_chunk_length" =>
            /\ len_chunk >= 0
            /\ pow(A, len_chunk) <= factorial(A)
            /\ pow(A, len_chunk + 1) > factorial(A)
            /\ A = 3 => len_chunk = 1
            /\ op = "get_chunk_length" => retn = len_chunk
            /\ \A chunk \in [1..len_chunk -> set(alphabet)] :
                 get_combindex(chunk, tebahpla_of(alphabet)) < factorial(A)

\* get_chunk_length has returned 2 for an alphabet of four symbols
ChunkLengthBoundWitness ==
  /\ op = "get_chunk_length" /\ pc = "done"
  /\ Len(alphabet) = 4 /\ retn = 2

\* C7: permutation inverse law.  For an alphabet of size A >= 1 and an index
\* below A!, get_permutation returns A symbols holding every symbol of the
\* alphabet exactly once, and get_permindex of that string returns the index.
PermutationInverse ==
  /\ (op = "get_permutation" /\ Len(alphabet) >= 1
        /\ index < factorial(Len(alphabet))) =>
       (~raised /\ IsPermutationOf(ret, alphabet))
  /\ (op = "get_permindex" /\ roundtrip /\ Len(alphabet) >= 1
        /\ index < factorial(Len(alphabet))) =>
       (~raised /\ retn = index /\ IsPermutationOf(text, alphabet))

\* the last permutation of four symbols has been mapped back to its index
PermutationInverseWitness ==
  /\ op = "get_permindex" /\ roundtrip /\ ~raised
  /\ Len(alphabet) = 4 /\ index = 23 /\ retn = 23

\* C8: factorial digit law.  The digits of n, most significant first, have
\* 0 <= digit <= p at every position p (the last element is position 0) and
\* the sum of digit * p! is n; for n = 0 there are no digits, for n > 0 the
\* first digit is not zero.
FactorialDigitLaw ==
  (op = "convert_factorial" /\ pc = "done") =>
    /\ \A i \in DOMAIN ret : 0 <= ret[i] /\ ret[i] <= Len(ret) - i
    /\ FactorialValue(ret) = index
    /\ index = 0 => ret = <<>>
    /\ index > 0 => (ret # <<>> /\ ret[1] # 0)

\* the digits of 23 are 3 2 1 0
FactorialDigitLawWitness ==
  /\ op = "convert_factorial" /\ pc = "done"
  /\ index = 23 /\ ret = <<3, 2, 1, 0>>

\* C9: padding removal in decode.  For a text that is a non-empty
\* concatenation of permutations of an alphabet of size A >= 2, decode
\* returns the decoded chunks less exactly their final len_pad symbols,
\* len_pad being the ordinal of the last decoded symbol; when that symbol is
\* alphabet[0] the whole decoded output is returned.
PaddingRemoval ==
  (op = "decode" /\ pc = "done" /\ Len(alphabet) >= 2
     /\ IsPermutationBlocks(text, alphabet)) =>
    LET decoded == decode_loop(text, alphabet, len_chunk, 0, <<>>).value
        len_pad == list_index(alphabet, decoded[Len(decoded)])
    IN /\ ~raised
       /\ Len(ret) = Len(decoded) - len_pad
       /\ ret = SubSeq(decoded, 1, Len(decoded) - len_pad)

\* C10: padding is well defined.  For a text over A >= 2 symbols, with L the
\* chunk length, encode's len_pad has 1 <= len_pad <= L < A and
\* (len(text) + len_pad) mod L = 0, so alphabet[len_pad] is in range and is
\* not alphabet[0], and encode does not raise.
PaddingWellDefined ==
  (op = "encode" /\ pc \in {"encode", "done"} /\ Len(alphabet) >= 2) =>
    /\ len_chunk >= 1
    /\ LET len_pad == encode_len_pad(text, len_chunk)
       IN /\ 1 <= len_pad /\ len_pad <= len_chunk
          /\ len_chunk < Len(alphabet)
          /\ (Len(text) + len_pad) % len_chunk = 0
          /\ (len_pad + 1) \in DOMAIN alphabet
          /\ alphabet[len_pad + 1] # alphabet[1]
    /\ pc = "done" => ~raised

\* a text of two whole chunks gets a full chunk of padding
PaddingWellDefinedWitness ==
  /\ op = "encode" /\ pc = "done" /\ ~raised
  /\ len_chunk = 2 /\ Len(text) = 4
  /\ encode_len_pad(text, len_chunk) = 2

====
